---- MODULE Spec2Model ----
(***************************************************************************)
(* Model of tf_agents/networks/actor_distribution_network.py:              *)
(* ActorDistributionNetwork.__init__ (construction) and                    *)
(* ActorDistributionNetwork.call (forward evaluation), the latter stepped  *)
(* statement by statement.                                                 *)
(*                                                                         *)
(* Nests (tf.contrib.framework.nest) are tagged trees: a leaf, or a tuple  *)
(* of nests.  Tensors are records of a shape, a dtype and the sequence of  *)
(* operations that produced them (hist).                                   *)
(***************************************************************************)
EXTENDS Integers, Sequences, FiniteSets

(* ------------------------------ bounds --------------------------------- *)

\* Largest number of leaves of an action specification.
MaxActionLeaves == 2
\* Largest number of leaves of an observation specification.
MaxObsLeaves == 2
\* Largest size of one outer (batch or time) dimension of an observation.
MaxDim == 2
\* Largest number of outer dimensions of an observation batch.
MaxOuterRank == 2

(* ------------------------------- nests ---------------------------------- *)

Leaf(x) == [tag |-> "leaf", v |-> x]

Tuple(s) == [tag |-> "seq", items |-> s]

\* nest.flatten: the leaves of a structure, left to right; a non-sequence
\* is a structure of one leaf.
RECURSIVE nest_flatten(_)
RECURSIVE FlattenItems(_)
nest_flatten(n) ==
  IF n.tag = "leaf" THEN <<n.v>> ELSE FlattenItems(n.items)

FlattenItems(s) ==
  IF s = <<>> THEN <<>> ELSE nest_flatten(Head(s)) \o FlattenItems(Tail(s))

\* nest.pack_sequence_as(structure, flat): structure with its leaves
\* replaced, left to right, by the elements of flat.  PackFrom returns the
\* packed nest and the flat sequence that is left.
RECURSIVE PackFrom(_, _)
RECURSIVE PackItems(_, _)
PackFrom(n, flat) ==
  IF n.tag = "leaf"
    THEN [nest |-> Leaf(Head(flat)), rest |-> Tail(flat)]
    ELSE LET r == PackItems(n.items, flat)
         IN  [nest |-> Tuple(r.items), rest |-> r.rest]

PackItems(s, flat) ==
  IF s = <<>>
    THEN [items |-> <<>>, rest |-> flat]
    ELSE LET h == PackFrom(Head(s), flat)
             t == PackItems(Tail(s), h.rest)
         IN  [items |-> <<h.nest>> \o t.items, rest |-> t.rest]

nest_pack_sequence_as(structure, flat) == PackFrom(structure, flat).nest

\* The nested shape of a structure: the structure with every leaf erased.
RECURSIVE Structure(_)
Structure(n) ==
  IF n.tag = "leaf"
    THEN Leaf(0)
    ELSE Tuple([i \in 1..Len(n.items) |-> Structure(n.items[i])])

(* ------------------------- sets of input nests -------------------------- *)

\* Sequences of items holding exactly k leaves of L; an item is a leaf or,
\* when deep, a non-empty tuple of leaves.
RECURSIVE ItemSeqs(_, _, _)
ItemSeqs(L, k, deep) ==
  IF k = 0
    THEN {<<>>}
    ELSE UNION {
           { <<first>> \o rest :
               first \in (IF j = 1 THEN {Leaf(l) : l \in L} ELSE {})
                         \cup (IF deep
                                 THEN {Tuple(s) : s \in ItemSeqs(L, j, FALSE)}
                                 ELSE {}),
               rest \in ItemSeqs(L, k - j, deep) } : j \in 1..k }

\* The nests of at most n leaves of L: a bare leaf, or a tuple of items.
NestsUpTo(L, n, deep) ==
  {Leaf(l) : l \in L}
    \cup UNION { {Tuple(s) : s \in ItemSeqs(L, k, deep)} : k \in 0..n }

(* --------------------------- constructor inputs ------------------------- *)

\* An action leaf is a BoundedTensorSpec; is_discrete() is what __init__
\* reads of it.
ActionLeaves == {[discrete |-> TRUE], [discrete |-> FALSE]}

is_discrete(single_output_spec) == single_output_spec.discrete

\* An observation leaf is a TensorSpec: a feature vector, or an image.
ObsLeaves == {[shape |-> <<3>>, dtype |-> "int32"],
              [shape |-> <<2, 2, 1>>, dtype |-> "int32"]}

ActionSpecs == NestsUpTo(ActionLeaves, MaxActionLeaves, TRUE)

ObservationSpecs == NestsUpTo(ObsLeaves, MaxObsLeaves, FALSE)

ActivationFns == {"relu"}

\* fc_layer_params: None, or a tuple of numbers of units.
FcLayerParams == {[some |-> FALSE, v |-> <<>>],
                  [some |-> TRUE, v |-> <<2>>],
                  [some |-> TRUE, v |-> <<3, 2>>]}

\* conv_layer_params: None (the default), or a tuple of
\* (filters, kernel_size, stride).
ConvLayerParams == {[some |-> FALSE, v |-> <<>>],
                    [some |-> TRUE, v |-> << <<2, 1, 1>> >>]}

\* The projection-network factories a caller can inject: the two defaults
\* of the module, or a caller-supplied factory for both.
FactoryPairs ==
  {[discrete |-> "_categorical_projection_net",
    continuous |-> "_normal_projection_net"],
   [discrete |-> "custom", continuous |-> "custom"]}

\* The arguments of __init__.  The layers fit the observations: images go
\* with convolutions (here followed by one fully-connected layer), feature
\* vectors with fully-connected layers alone.
ConstructorArgs ==
  {a \in [tag : {"args"},
          observation_spec : ObservationSpecs,
          action_spec : ActionSpecs,
          fc_layer_params : FcLayerParams,
          conv_layer_params : ConvLayerParams,
          activation_fn : ActivationFns,
          factories : FactoryPairs] :
     LET leaves == nest_flatten(a.observation_spec)
     IN  /\ \A i \in 1..Len(leaves) :
              (Len(leaves[i].shape) = 3) <=> a.conv_layer_params.some
         /\ a.conv_layer_params.some => Len(a.fc_layer_params.v) = 1
         /\ (leaves = <<>>) => ~a.conv_layer_params.some}

(* ------------------------------ call inputs ----------------------------- *)

\* The sequences of outer dimensions: [B], [B, T], ...
RECURSIVE OuterDims(_)
OuterDims(r) ==
  IF r = 0
    THEN {<<>>}
    ELSE {<<d>> \o s : d \in 1..MaxDim, s \in OuterDims(r - 1)}

\* A batch of observations for a leaf specification: the outer dimensions
\* followed by the specification's own shape.
Batches(spec) ==
  {[shape |-> outer \o spec.shape, dtype |-> spec.dtype, hist |-> <<>>] :
     outer \in UNION {OuterDims(r) : r \in 1..MaxOuterRank}}

\* Observations in the structure of the observation specification.
Observations(observation_spec) ==
  LET specs == nest_flatten(observation_spec)
  IN  {nest_pack_sequence_as(observation_spec, flat) :
         flat \in {f \in [1..Len(specs) -> UNION {Batches(specs[i]) : i \in 1..Len(specs)}] :
                     \A i \in 1..Len(specs) : f[i] \in Batches(specs[i])}}

StepTypes == {"FIRST", "MID"}

\* The empty state, and a non-empty structure a caller may pass all the same.
NetworkStates == {Tuple(<<>>), Tuple(<<Leaf([shape |-> <<1>>, dtype |-> "float32", hist |-> <<>>])>>)}

(* ------------------------------ construction ---------------------------- *)

\* Off by one: only three or more observations are refused.
RaisesValueError_OffByOne(observation_spec) ==
  Len(nest_flatten(observation_spec)) > 2

\* The guard of __init__: True when construction raises ValueError.
RaisesValueError(observation_spec) ==
  Len(nest_flatten(observation_spec)) > 1

\* utils.mlp_layers: the convolution layers and a Flatten layer when
\* conv_layer_params is given, then one Dense layer per fc_layer_params item.
utils_mlp_layers(conv_layer_params, fc_layer_params, activation_fn) ==
  (IF conv_layer_params.some
     THEN [i \in 1..Len(conv_layer_params.v) |->
             [kind |-> "conv", units |-> conv_layer_params.v[i],
              activation |-> activation_fn, kernel_initializer |-> "glorot_uniform"]]
          \o <<[kind |-> "flatten", units |-> 0,
                activation |-> "none", kernel_initializer |-> "none"]>>
     ELSE <<>>)
  \o
  (IF fc_layer_params.some
     THEN [i \in 1..Len(fc_layer_params.v) |->
             [kind |-> "dense", units |-> fc_layer_params.v[i],
              activation |-> activation_fn, kernel_initializer |-> "glorot_uniform"]]
     ELSE <<>>)

\* What a factory builds: the module's two factories build a
\* CategoricalProjectionNetwork and a NormalProjectionNetwork.
ProjectionClass(factory) ==
  CASE factory = "_categorical_projection_net" -> "CategoricalProjectionNetwork"
    [] factory = "_normal_projection_net" -> "NormalProjectionNetwork"
    [] OTHER -> "CustomProjectionNetwork"

\* factory(single_output_spec): a new projection network, the created-th
\* object built; each network owns its parameters, so two networks built
\* from equal specifications are different objects.
MakeProjection(factory, single_output_spec, created) ==
  [id |-> created + 1,
   factory |-> factory,
   spec |-> single_output_spec,
   output_spec |-> [distribution |-> ProjectionClass(factory),
                    sample_spec |-> single_output_spec]]

\* The two branches exchanged.
SelectFactory_Swapped(single_output_spec, discrete_projection_net, continuous_projection_net) ==
  IF is_discrete(single_output_spec)
    THEN continuous_projection_net
    ELSE discrete_projection_net

\* The branch of the loop body: which factory builds the network of a leaf.
SelectFactory(single_output_spec, discrete_projection_net, continuous_projection_net) ==
  IF is_discrete(single_output_spec)
    THEN discrete_projection_net
    ELSE continuous_projection_net

\* The loop over nest.flatten(action_spec), appending one network per leaf.
RECURSIVE ProjectionLoop(_, _, _)
ProjectionLoop(leaves, factories, projection_networks) ==
  IF leaves = <<>>
    THEN projection_networks
    ELSE ProjectionLoop(
           Tail(leaves), factories,
           Append(projection_networks,
                  MakeProjection(
                    SelectFactory(Head(leaves), factories.discrete, factories.continuous),
                    Head(leaves), Len(projection_networks))))

BuildProjectionNetworks(action_spec, factories) ==
  ProjectionLoop(nest_flatten(action_spec), factories, <<>>)

\* The flat list of output specifications, not packed as action_spec.
BuildOutputSpec_NotPacked(action_spec, projection_networks) ==
  Tuple([i \in 1..Len(projection_networks) |->
           Leaf(projection_networks[i].output_spec)])

\* output_spec: the networks' output specifications, packed as action_spec.
BuildOutputSpec(action_spec, projection_networks) ==
  nest_pack_sequence_as(
    action_spec,
    [i \in 1..Len(projection_networks) |-> projection_networks[i].output_spec])

\* The fields of the network when __init__ returns.
NewNetwork(a) ==
  LET mlp_layers == utils_mlp_layers(a.conv_layer_params, a.fc_layer_params, a.activation_fn)
      projection_networks == BuildProjectionNetworks(a.action_spec, a.factories)
  IN  [tag |-> "net",
       observation_spec |-> a.observation_spec,
       action_spec |-> a.action_spec,
       state_spec |-> Tuple(<<>>),
       output_spec |-> BuildOutputSpec(a.action_spec, projection_networks),
       mlp_layers |-> mlp_layers,
       projection_networks |-> projection_networks]

(* ---------------------------- forward evaluation ------------------------ *)

NoTensor == [shape |-> <<>>, dtype |-> "none", hist |-> <<>>]

NoBatchSquash == [batch_dims |-> -1, original_shape |-> <<>>]

NoCall == [tag |-> "none"]

RECURSIVE Product(_)
Product(s) == IF s = <<>> THEN 1 ELSE Head(s) * Product(Tail(s))

\* nest_utils.get_outer_rank: the number of leading dimensions the
\* observation has beyond the shape its specification declares.
get_outer_rank(observations, observation_spec) ==
  Len(nest_flatten(observations)[1].shape)
    - Len(nest_flatten(observation_spec)[1].shape)

\* tf.cast(tensor, tf.float32)
tf_cast(tensor) ==
  [tensor EXCEPT !.dtype = "float32", !.hist = Append(@, [op |-> "cast"])]

\* utils.BatchSquash(batch_dims)
BatchSquash(batch_dims) == [batch_dims |-> batch_dims, original_shape |-> <<>>]

\* BatchSquash.flatten: the squash object afterwards (it remembers the
\* shape it collapsed) and the tensor, its batch_dims leading dimensions
\* collapsed into one.
BatchSquashFlatten(bs, tensor) ==
  IF bs.batch_dims = 1
    THEN [bs |-> bs,
          tensor |-> [tensor EXCEPT !.hist = Append(@, [op |-> "flatten"])]]
    ELSE [bs |-> [bs EXCEPT !.original_shape = tensor.shape],
          tensor |->
            [tensor EXCEPT
               !.shape = <<Product(SubSeq(tensor.shape, 1, bs.batch_dims))>>
                           \o SubSeq(tensor.shape, bs.batch_dims + 1, Len(tensor.shape)),
               !.hist = Append(@, [op |-> "flatten"])]]

\* BatchSquash.unflatten: the leading dimension replaced by the batch_dims
\* leading dimensions flatten collapsed.
BatchSquashUnflatten(bs, tensor) ==
  IF bs.batch_dims = 1
    THEN [tensor EXCEPT !.hist = Append(@, [op |-> "unflatten"])]
    ELSE [tensor EXCEPT
            !.shape = SubSeq(bs.original_shape, 1, bs.batch_dims)
                        \o Tail(tensor.shape),
            !.hist = Append(@, [op |-> "unflatten"])]

\* layer(states): a Dense layer maps the last dimension to its units, a
\* Flatten layer collapses all but the first dimension, a Conv2D layer of
\* (filters, kernel_size, stride) maps [N, H, W, C] with valid padding.
ApplyLayer(layer, tensor) ==
  LET sh == tensor.shape
      out == CASE layer.kind = "dense" ->
                    SubSeq(sh, 1, Len(sh) - 1) \o <<layer.units>>
               [] layer.kind = "flatten" ->
                    <<sh[1], Product(Tail(sh))>>
               [] layer.kind = "conv" ->
                    <<sh[1],
                      ((sh[2] - layer.units[2]) \div layer.units[3]) + 1,
                      ((sh[3] - layer.units[2]) \div layer.units[3]) + 1,
                      layer.units[1]>>
  IN  [tensor EXCEPT !.shape = out,
                     !.hist = Append(@, [op |-> "layer", layer |-> layer])]

\* projection(states, outer_rank): the distribution a projection network
\* produces, as the call that produced it.
Projection(projection, tensor, rank) ==
  [by |-> projection, states |-> tensor, outer_rank |-> rank]

Reverse(s) == [i \in 1..Len(s) |-> s[Len(s) + 1 - i]]

\* The layers taken from the end of the stack.
StatesAfterLayer_Reversed(mlp_layers, i, tensor) ==
  ApplyLayer(mlp_layers[Len(mlp_layers) + 1 - i], tensor)

\* The unflatten forgotten: the collapsed tensor goes on to the projections.
StatesAfterUnflatten_Skipped(bs, tensor) ==
  [tensor EXCEPT !.hist = Append(@, [op |-> "unflatten"])]

\* The outer rank not passed on: every projection is told one batch dimension.
NextOutput_RankOne(projection_networks, outputs, tensor, rank) ==
  Projection(projection_networks[Len(outputs) + 1], tensor, 1)

\* The outputs packed in the opposite order.
ReturnValue_Reversed(action_spec, outputs, network_state) ==
  [distributions |-> nest_pack_sequence_as(action_spec, Reverse(outputs)),
   network_state |-> network_state]

\* The empty state returned in place of the incoming one.
ReturnValue_EmptyState(action_spec, outputs, network_state) ==
  [distributions |-> nest_pack_sequence_as(action_spec, outputs),
   network_state |-> Tuple(<<>>)]

\* Lines of call(), one definition per statement.
OuterRankOf(observations, observation_spec) ==
  get_outer_rank(observations, observation_spec)

StatesAfterCast(observations) ==
  tf_cast(nest_flatten(observations)[1])

SquashOf(rank, tensor) ==
  BatchSquashFlatten(BatchSquash(rank), tensor)

StatesAfterLayer(mlp_layers, i, tensor) ==
  ApplyLayer(mlp_layers[i], tensor)

StatesAfterUnflatten(bs, tensor) ==
  BatchSquashUnflatten(bs, tensor)

NextOutput(projection_networks, outputs, tensor, rank) ==
  Projection(projection_networks[Len(outputs) + 1], tensor, rank)

ReturnValue(action_spec, outputs, network_state) ==
  [distributions |-> nest_pack_sequence_as(action_spec, outputs),
   network_state |-> network_state]

(* --------------------------------- state -------------------------------- *)

VARIABLES
  pc,            \* "new", "raised", "idle", the next statement of call(),
                 \* "returned", "error"
  args,          \* the arguments __init__ was called with
  self,          \* the network's fields
  inp,           \* the arguments of the call() in progress or last returned
  outer_rank,    \* locals of call()
  states,
  batch_squash,
  layer_i,       \* number of layers the loop of call() has applied
  outputs,
  ret            \* what call() returned

vars == <<pc, args, self, inp, outer_rank, states, batch_squash, layer_i, outputs, ret>>

locals == <<outer_rank, states, batch_squash, layer_i, outputs>>

NoReturn == [tag |-> "none"]

Init ==
  /\ pc = "new"
  /\ args = [tag |-> "none"]
  /\ self = [tag |-> "none"]
  /\ inp = NoCall
  /\ outer_rank = -1
  /\ states = NoTensor
  /\ batch_squash = NoBatchSquash
  /\ layer_i = 0
  /\ outputs = <<>>
  /\ ret = NoReturn

\* ActorDistributionNetwork.__init__
Construct ==
  /\ pc = "new"
  /\ \E a \in ConstructorArgs :
       /\ args' = a
       /\ IF RaisesValueError(a.observation_spec)
            THEN /\ pc' = "raised"
                 /\ self' = self
            ELSE /\ pc' = "idle"
                 /\ self' = NewNetwork(a)
  /\ UNCHANGED <<inp, locals, ret>>

\* call(): entry, del step_type, outer_rank = get_outer_rank(...).  With no
\* observation in the specification there is no observations[0]: the call
\* raises.
CallOuterRank ==
  /\ pc = "idle"
  /\ \E observations \in Observations(self.observation_spec),
        step_type \in StepTypes,
        network_state \in NetworkStates :
       /\ inp' = [tag |-> "call", observations |-> observations,
                  network_state |-> network_state]
       /\ IF nest_flatten(observations) = <<>>
            THEN /\ pc' = "error"
                 /\ outer_rank' = -1
            ELSE /\ pc' = "cast"
                 /\ outer_rank' = OuterRankOf(observations, self.observation_spec)
  /\ UNCHANGED <<args, self, states, batch_squash, layer_i, outputs, ret>>

\* observations = nest.flatten(observations); states = tf.cast(observations[0], ...)
CallCast ==
  /\ pc = "cast"
  /\ states' = StatesAfterCast(inp.observations)
  /\ pc' = "squash"
  /\ UNCHANGED <<args, self, inp, outer_rank, batch_squash, layer_i, outputs, ret>>

\* batch_squash = utils.BatchSquash(outer_rank); states = batch_squash.flatten(states)
CallSquash ==
  /\ pc = "squash"
  /\ LET r == SquashOf(outer_rank, states)
     IN  /\ batch_squash' = r.bs
         /\ states' = r.tensor
  /\ pc' = "layers"
  /\ UNCHANGED <<args, self, inp, outer_rank, layer_i, outputs, ret>>

\* The loop taking each layer off the network's own list as it applies it.
CallLayer_ConsumesLayers ==
  /\ pc = "layers"
  /\ layer_i < Len(self.mlp_layers)
  /\ states' = StatesAfterLayer(self.mlp_layers, 1, states)
  /\ self' = [self EXCEPT !.mlp_layers = Tail(@)]
  /\ UNCHANGED <<pc, args, inp, outer_rank, batch_squash, layer_i, outputs, ret>>

\* for layer in self._mlp_layers: states = layer(states)
CallLayer ==
  /\ pc = "layers"
  /\ layer_i < Len(self.mlp_layers)
  /\ states' = StatesAfterLayer(self.mlp_layers, layer_i + 1, states)
  /\ layer_i' = layer_i + 1
  /\ UNCHANGED <<pc, args, self, inp, outer_rank, batch_squash, outputs, ret>>

\* states = batch_squash.unflatten(states)
CallUnflatten ==
  /\ pc = "layers"
  /\ layer_i = Len(self.mlp_layers)
  /\ states' = StatesAfterUnflatten(batch_squash, states)
  /\ pc' = "project"
  /\ UNCHANGED <<args, self, inp, outer_rank, batch_squash, layer_i, outputs, ret>>

\* outputs = [projection(states, outer_rank) for projection in ...]
CallProject ==
  /\ pc = "project"
  /\ Len(outputs) < Len(self.projection_networks)
  /\ outputs' = Append(outputs,
                       NextOutput(self.projection_networks, outputs, states, outer_rank))
  /\ UNCHANGED <<pc, args, self, inp, outer_rank, states, batch_squash, layer_i, ret>>

\* return nest.pack_sequence_as(self._action_spec, outputs), network_state
CallReturn ==
  /\ pc = "project"
  /\ Len(outputs) = Len(self.projection_networks)
  /\ ret' = ReturnValue(self.action_spec, outputs, inp.network_state)
  /\ pc' = "returned"
  /\ UNCHANGED <<args, self, inp, locals>>

\* The caller has the result; the frame of call() and its locals are gone,
\* and the network can be called again.
CallDone ==
  /\ pc = "returned"
  /\ pc' = "idle"
  /\ inp' = NoCall
  /\ outer_rank' = -1
  /\ states' = NoTensor
  /\ batch_squash' = NoBatchSquash
  /\ layer_i' = 0
  /\ outputs' = <<>>
  /\ ret' = NoReturn
  /\ UNCHANGED <<args, self>>

Next ==
  \/ Construct
  \/ CallOuterRank
  \/ CallCast
  \/ CallSquash
  \/ CallLayer
  \/ CallUnflatten
  \/ CallProject
  \/ CallReturn
  \/ CallDone

Spec == Init /\ [][Next]_vars

(* -------------------------------- claims -------------------------------- *)

Constructed == self.tag = "net"

\* The outer dimensions of the observation batch of the call in progress,
\* read off the call's argument and the observation specification.
InputOuterDims ==
  LET obs == nest_flatten(inp.observations)[1].shape
      spec == nest_flatten(self.observation_spec)[1].shape
  IN  SubSeq(obs, 1, Len(obs) - Len(spec))

\* The operations behind the tensor once the first k layers are applied.
HistAfterLayers(k) ==
  <<[op |-> "cast"], [op |-> "flatten"]>>
    \o [i \in 1..k |-> [op |-> "layer", layer |-> self.mlp_layers[i]]]

\* C1: construction with an observation specification of two or more
\* leaves raises ValueError, whatever the other arguments are, and leaves
\* no network.
C1_TwoOrMoreObservationsRaise ==
  (args.tag = "args" /\ Len(nest_flatten(args.observation_spec)) >= 2)
    => (pc = "raised" /\ self.tag = "none")

C1_Witness ==
  /\ pc = "raised"
  /\ Len(nest_flatten(args.observation_spec)) = 2
  /\ Len(nest_flatten(args.action_spec)) > 0

\* C2: every constructed network has an observation specification of
\* exactly one leaf (construction fails for every other count).
C2_ExactlyOneObservation ==
  Constructed => Len(nest_flatten(self.observation_spec)) = 1

\* C3: the projection network list has one entry per leaf of the flattened
\* action specification, and entry i is what the discrete factory builds
\* from leaf i when leaf i is discrete, and what the continuous factory
\* builds from it otherwise.
C3_ProjectionPerLeaf ==
  Constructed =>
    LET leaves == nest_flatten(args.action_spec)
        pn == self.projection_networks
    IN  /\ Len(pn) = Len(leaves)
        /\ \A i \in 1..Len(leaves) :
             pn[i] = MakeProjection(
                       IF leaves[i].discrete
                         THEN args.factories.discrete
                         ELSE args.factories.continuous,
                       leaves[i], i - 1)

C3_Witness ==
  /\ Constructed
  /\ args.factories.discrete # args.factories.continuous
  /\ LET leaves == nest_flatten(args.action_spec)
     IN  /\ Len(leaves) = 2
         /\ leaves[1].discrete
         /\ ~leaves[2].discrete

\* C4: the output specification has the nested structure of the action
\* specification, and its i-th leaf is the output_spec of the i-th
\* projection network.
C4_OutputSpecMirrorsActionSpec ==
  Constructed =>
    LET flat == nest_flatten(self.output_spec)
        pn == self.projection_networks
    IN  /\ Structure(self.output_spec) = Structure(self.action_spec)
        /\ Len(flat) = Len(pn)
        /\ \A i \in 1..Len(pn) : flat[i] = pn[i].output_spec

C4_Witness ==
  /\ Constructed
  /\ self.action_spec.tag = "seq"
  /\ Len(self.action_spec.items) = 2
  /\ self.action_spec.items[1].tag = "seq"
  /\ LET flat == nest_flatten(self.output_spec)
     IN  Len(flat) = 2 /\ flat[1] # flat[2]

\* C5: what a forward call returns has the nested structure of the action
\* specification, and its i-th leaf is the distribution produced by the
\* i-th projection network, the one built from action leaf i.
C5_DistributionsMirrorActionSpec ==
  pc = "returned" =>
    LET flat == nest_flatten(ret.distributions)
        leaves == nest_flatten(self.action_spec)
        pn == self.projection_networks
    IN  /\ Structure(ret.distributions) = Structure(self.action_spec)
        /\ Len(flat) = Len(leaves)
        /\ \A i \in 1..Len(leaves) :
             /\ flat[i].by = pn[i]
             /\ flat[i].by.id = i
             /\ flat[i].by.spec = leaves[i]

C5_Witness ==
  /\ pc = "returned"
  /\ self.action_spec.tag = "seq"
  /\ Len(self.action_spec.items) = 2
  /\ self.action_spec.items[2].tag = "seq"
  /\ LET leaves == nest_flatten(self.action_spec)
     IN  Len(leaves) = 2 /\ leaves[1].discrete # leaves[2].discrete

\* C6: a forward call returns the incoming network_state unchanged as the
\* second element of its result, and the state specification of the
\* network is the empty structure.
C6_NetworkStateReturnedUnchanged ==
  /\ Constructed => self.state_spec = Tuple(<<>>)
  /\ pc = "returned" => ret.network_state = inp.network_state

C6_Witness ==
  /\ pc = "returned"
  /\ inp.network_state # Tuple(<<>>)
  /\ ret.network_state = inp.network_state

\* C7: the feature layers see the outer dimensions of the observation
\* collapsed into one batch dimension (B, or B*T), and the tensor handed to
\* the projections has the outer dimensions of the observation again.
C7_SquashRoundTrip ==
  /\ pc = "layers" =>
       /\ states.shape[1] = Product(InputOuterDims)
       /\ layer_i = 0 =>
            Tail(states.shape) = nest_flatten(self.observation_spec)[1].shape
  /\ pc \in {"project", "returned"} =>
       /\ SubSeq(states.shape, 1, Len(InputOuterDims)) = InputOuterDims
       /\ Len(states.shape) = Len(InputOuterDims) + 1

C7_Witness ==
  /\ pc = "project"
  /\ Len(outputs) > 0
  /\ InputOuterDims = <<2, 2>>
  /\ states.shape[1] = 2
  /\ states.shape[2] = 2

\* C8: once the network is constructed no step changes its fields: the
\* layers, the projection networks, the action, observation, state and
\* output specifications stay as construction left them.
C8_FieldsUnchangedAfterConstruction ==
  [][Constructed => self' = self]_vars

C8_Witness ==
  /\ pc = "returned"
  /\ Constructed
  /\ Len(self.mlp_layers) = 2
  /\ Len(self.projection_networks) = 2

\* C9: in a forward call the outer rank is determined first, then the
\* observation is cast, then squashed, then every layer of the stack is
\* applied once in the stack's order, each to the output of the one before,
\* then the tensor is unsquashed; no projection runs before that.
C9_StepsInOrder ==
  /\ pc = "cast" => (outer_rank = Len(InputOuterDims) /\ states = NoTensor)
  /\ pc = "squash" => states.hist = <<[op |-> "cast"]>>
  /\ pc = "layers" => states.hist = HistAfterLayers(layer_i)
  /\ pc \in {"cast", "squash", "layers"} => outputs = <<>>
  /\ pc \in {"project", "returned"} =>
       /\ layer_i = Len(self.mlp_layers)
       /\ states.hist = HistAfterLayers(Len(self.mlp_layers)) \o <<[op |-> "unflatten"]>>
       /\ \A i \in 1..Len(outputs) : outputs[i].states.hist = states.hist

C9_Witness ==
  /\ pc = "project"
  /\ Len(outputs) > 0
  /\ Len(self.mlp_layers) = 2
  /\ self.mlp_layers[1] # self.mlp_layers[2]

\* C10: in a forward call every projection network is invoked once, in the
\* order of the list, each with the unsquashed tensor and the outer rank
\* computed from the observations at the start of the call.
C10_ProjectionsCalledInOrder ==
  /\ pc \in {"project", "returned"} =>
       /\ Len(outputs) <= Len(self.projection_networks)
       /\ states.hist # <<>> /\ states.hist[Len(states.hist)] = [op |-> "unflatten"]
       /\ \A i \in 1..Len(outputs) :
            /\ outputs[i].by = self.projection_networks[i]
            /\ outputs[i].states = states
            /\ outputs[i].outer_rank = Len(InputOuterDims)
  /\ pc = "returned" => Len(outputs) = Len(self.projection_networks)

C10_Witness ==
  /\ pc = "returned"
  /\ Len(outputs) = 2
  /\ Len(InputOuterDims) = 2

====
